---- MODULE Spec2Model ----
(***************************************************************************)
(* Model of static/js/script.js, the client script of the accident        *)
(* detection dashboard: the socket event handlers, the widgets they write  *)
(* (detection metrics, statistics, alert timeline, connection indicator),  *)
(* the notification side effects and the clear-history request.            *)
(*                                                                         *)
(* Representation of JavaScript values:                                    *)
(*   - an optional property is a sequence: <<>> when the property is       *)
(*     absent (undefined), <<v>> when it is present with value v;          *)
(*   - in number-valued expressions <<>> also stands for NaN (undefined    *)
(*     and NaN are both falsy and both come out of arithmetic on           *)
(*     undefined);                                                         *)
(*   - fractional numbers are integers in thousandths: the confidence     *)
(*     0.87 is 870, the percentage 73.4 is 73400;                          *)
(*   - a text written by toFixed(1) is the integer number of tenths it     *)
(*     shows ("87.0" is 870), a text written by toFixed(0) is the integer  *)
(*     it shows; <<>> in a text written from a number is "NaN";            *)
(*   - a DOM text the script has not written yet is <<>> (the static       *)
(*     markup of the page, which the script does not define).              *)
(***************************************************************************)
EXTENDS Integers, Sequences, FiniteSets

VARIABLES
    conn,       \* connection indicator: class of .connection-dot, #connectionText
    snap,       \* detection metrics widgets written by updateDetectionMetrics
    stats,      \* statistics widgets written by updateStats
    timeline,   \* children of #alertTimeline, first child first
    pending,    \* number of /api/clear-history requests awaiting their response
    last,       \* the event most recently dispatched: [kind, data]
    notified,   \* side effects (toast, confetti, sound) emitted while handling last
    uncaught,   \* the error that escaped the handler of last, "none" if none did
    alerts,     \* payloads of the accident_alert events delivered so far, in order
    events      \* number of events dispatched so far

vars == <<conn, snap, stats, timeline, pending, last, notified, uncaught, alerts, events>>

(***************************************************************************)
(* Bounds of the model.                                                    *)
(***************************************************************************)
MaxEvents == 4
MaxAlerts == 12
MaxPending == 1

(***************************************************************************)
(* Program constants.                                                      *)
(***************************************************************************)
TimelineLimit == 10
DefaultAccidents == 24
DefaultMinor == 12
DefaultMajor == 8
DefaultCritical == 4
Circumference == 100
GoodThreshold == 85
WarnThreshold == 65

Undefined == <<>>
Some(v) == <<v>>

(***************************************************************************)
(* JavaScript truthiness and the || operator.                              *)
(***************************************************************************)
TruthyNum(x) == x # Undefined /\ x[1] # 0
TruthyStr(x) == x # Undefined /\ x[1] # ""
TruthyBool(x) == x = Some(TRUE)
OrNum(x, y) == IF TruthyNum(x) THEN x ELSE y

\* x * 100 on an optional number: undefined * 100 is NaN
Times100(x) == IF x = Undefined THEN Undefined ELSE Some(x[1] * 100)

\* Number.prototype.toFixed on a value in thousandths: the value rounded to
\* `digits` decimals, as the integer count of 10^-digits units it shows.
ToFixed(x, digits) ==
    LET unit == IF digits = 0 THEN 1000 ELSE 100
    IN  (x + unit \div 2) \div unit

\* String.prototype.toLowerCase on the severity strings of the model
ToLowerCase(s) ==
    CASE s = "MINOR" -> "minor"
      [] s = "MAJOR" -> "major"
      [] s = "CRITICAL" -> "critical"
      [] s = "Critical" -> "critical"
      [] s = "UNKNOWN" -> "unknown"
      [] OTHER -> s

\* the three .severity-dot markers of the page, by their second class
SeverityDots == {"minor", "major", "critical"}

KnownSeverities == {"MINOR", "MAJOR", "CRITICAL"}

(***************************************************************************)
(* Widgets.                                                                *)
(***************************************************************************)
\* the detection metrics widgets before the script writes them
InitSnap ==
    [ accidentStatus      |-> Undefined,   \* #accidentStatus textContent
      statusColor         |-> Undefined,   \* #accidentStatus style.color
      statusBarWidth      |-> Undefined,   \* #statusBar style.width, in percent
      statusBarBackground |-> Undefined,   \* #statusBar style.background
      severityLevel       |-> Undefined,   \* #severityLevel textContent
      activeDots          |-> {},          \* .severity-dot elements of class active
      confidenceValue     |-> Undefined,   \* #confidenceValue, tenths of a percent
      confidencePercentage|-> Undefined,   \* #confidencePercentage, percent
      strokeDashoffset    |-> Undefined,   \* #confidencePath, thousandths
      stroke              |-> Undefined,   \* #confidencePath style.stroke
      vehicleCount        |-> Undefined,   \* #vehicleCount textContent
      factorOverlap       |-> Undefined,   \* #factorOverlap textContent
      factorMotion        |-> Undefined,   \* #factorMotion textContent
      factorDebris        |-> Undefined ]  \* #factorDebris textContent

\* the counter of data-target 24 once initCounters has run to its target, and
\* the data of charts.severity as initCharts builds it
InitStats ==
    [ counter |-> Some(DefaultAccidents),
      chart   |-> <<DefaultMinor, DefaultMajor, DefaultCritical>> ]

InitConn == [ dot |-> Undefined, text |-> Undefined ]

(***************************************************************************)
(* updateConnectionStatus(connected)                                       *)
(***************************************************************************)
updateConnectionStatus(connected) ==
    IF connected
    THEN [ dot |-> Some("connected"), text |-> Some("Connected to server") ]
    ELSE [ dot |-> Some("disconnected"), text |-> Some("Disconnected") ]

(***************************************************************************)
(* updateDetectionMetrics(data), on the widgets s                          *)
(***************************************************************************)
\* const confidence = data.severity_confidence || (data.confidence * 100) || 0
confidenceOf(data) ==
    OrNum(OrNum(data.severity_confidence, Times100(data.confidence)), Some(0))[1]

strokeOf(confidence) ==
    IF confidence >= GoodThreshold * 1000 THEN "#10b981"
    ELSE IF confidence >= WarnThreshold * 1000 THEN "#f59e0b"
    ELSE "#ef4444"

\* (data.severity_factors.<key> || 0).toFixed(0)
factorText(value) == Some(ToFixed(OrNum(value, Some(0))[1], 0))

\* updateDetectionMetrics without the removal of the active class from the
\* markers before one is highlighted
updateDetectionMetricsKeepingDots(s, data) ==
    LET confidence == confidenceOf(data)
        s1 == IF TruthyBool(data.accident_detected)
              THEN [s EXCEPT !.accidentStatus = Some("ACCIDENT DETECTED"),
                             !.statusColor = Some("#ef4444"),
                             !.statusBarWidth = Some(100),
                             !.statusBarBackground = Some("linear-gradient")]
              ELSE [s EXCEPT !.accidentStatus = Some("Normal"),
                             !.statusColor = Some("#10b981"),
                             !.statusBarWidth = Some(0)]
        s2 == IF TruthyStr(data.severity)
              THEN [s1 EXCEPT !.severityLevel = data.severity,
                              !.activeDots = s.activeDots \cup
                                             ({ToLowerCase(data.severity[1])}
                                              \cap SeverityDots)]
              ELSE s1
        s3 == [s2 EXCEPT !.confidenceValue = Some(ToFixed(confidence, 1)),
                         !.confidencePercentage = Some(ToFixed(confidence, 0)),
                         !.strokeDashoffset =
                             Some(Circumference * 1000
                                  - (confidence * Circumference) \div 100),
                         !.stroke = Some(strokeOf(confidence)),
                         !.vehicleCount = OrNum(data.vehicle_count, Some(0))]
    IN  IF data.severity_factors # Undefined
        THEN [s3 EXCEPT !.factorOverlap = factorText(data.severity_factors[1].overlap),
                        !.factorMotion = factorText(data.severity_factors[1].motion),
                        !.factorDebris = factorText(data.severity_factors[1].debris)]
        ELSE s3

updateDetectionMetrics(s, data) ==
    LET confidence == confidenceOf(data)
        s1 == IF TruthyBool(data.accident_detected)
              THEN [s EXCEPT !.accidentStatus = Some("ACCIDENT DETECTED"),
                             !.statusColor = Some("#ef4444"),
                             !.statusBarWidth = Some(100),
                             !.statusBarBackground = Some("linear-gradient")]
              ELSE [s EXCEPT !.accidentStatus = Some("Normal"),
                             !.statusColor = Some("#10b981"),
                             !.statusBarWidth = Some(0)]
        s2 == IF TruthyStr(data.severity)
              THEN [s1 EXCEPT !.severityLevel = data.severity,
                              !.activeDots = {ToLowerCase(data.severity[1])}
                                             \cap SeverityDots]
              ELSE s1
        s3 == [s2 EXCEPT !.confidenceValue = Some(ToFixed(confidence, 1)),
                         !.confidencePercentage = Some(ToFixed(confidence, 0)),
                         !.strokeDashoffset =
                             Some(Circumference * 1000
                                  - (confidence * Circumference) \div 100),
                         !.stroke = Some(strokeOf(confidence)),
                         !.vehicleCount = OrNum(data.vehicle_count, Some(0))]
    IN  IF data.severity_factors # Undefined
        THEN [s3 EXCEPT !.factorOverlap = factorText(data.severity_factors[1].overlap),
                        !.factorMotion = factorText(data.severity_factors[1].motion),
                        !.factorDebris = factorText(data.severity_factors[1].debris)]
        ELSE s3

(***************************************************************************)
(* getSeverityIcon(severity) and addToTimeline(data)                       *)
(***************************************************************************)
getSeverityIcon(severity) ==
    CASE severity = "MINOR" -> "fa-car"
      [] severity = "MAJOR" -> "fa-truck"
      [] severity = "CRITICAL" -> "fa-bomb"
      [] OTHER -> "fa-exclamation-triangle"

\* the .timeline-item built for the n-th alert delivered; data.severity is a
\* string here (the caller has established it).  n stands for the identity of
\* the element created and for its time of creation.
timelineItem(data, n) ==
    [ n          |-> n,
      iconClass  |-> ToLowerCase(data.severity[1]),
      icon       |-> getSeverityIcon(data.severity[1]),
      title      |-> data.severity[1],
      confidence |-> IF data.confidence = Undefined
                     THEN Undefined
                     ELSE Some(ToFixed(Times100(data.confidence)[1], 1)) ]

\* addToTimeline with the limit enforced on the wrong end: the first child
\* (the item just inserted) is removed instead of the last
addToTimelineEvictingFirst(tl, data, n) ==
    LET inserted == <<timelineItem(data, n)>> \o tl
    IN  IF Len(inserted) > TimelineLimit
        THEN SubSeq(inserted, 2, Len(inserted))
        ELSE inserted

addToTimeline(tl, data, n) ==
    LET inserted == <<timelineItem(data, n)>> \o tl
    IN  IF Len(inserted) > TimelineLimit
        THEN SubSeq(inserted, 1, Len(inserted) - 1)
        ELSE inserted

(***************************************************************************)
(* Notification side effects.                                              *)
(***************************************************************************)
showToast(message, type) == [ fx |-> "toast", type |-> type, message |-> message ]
triggerConfetti == [ fx |-> "confetti" ]
\* audio.src = sounds[severity] || sounds['MAJOR'], by the key of the sound
playAlertSound(severity) ==
    [ fx  |-> "sound",
      src |-> IF severity # Undefined /\ severity[1] \in KnownSeverities
              THEN severity[1] ELSE "MAJOR" ]

\* What the collaborators of the notification code do when called:
\*   toast    - FALSE when #toastContainer is missing (showToast throws)
\*   confetti - FALSE when the confetti library is not loaded (confetti(...) throws)
\*   sound    - "plays", "rejected" (play() rejects: swallowed by .catch) or
\*              "throws" (Audio or play() throws synchronously)
Collaborators == [ toast : BOOLEAN, confetti : BOOLEAN, sound : {"plays", "rejected", "throws"} ]
Working == { c \in Collaborators : c.toast /\ c.confetti /\ c.sound # "throws" }
Failing == Collaborators \ Working

\* window.onerror: showToast('An error occurred', 'error')
onerror(effects, error, env) ==
    IF error # "none" /\ env.toast
    THEN Append(effects, showToast(<<"An error occurred">>, "error"))
    ELSE effects

(***************************************************************************)
(* handleAccidentAlert(data): toast, confetti for CRITICAL, sound, then    *)
(* the timeline item, then the metrics; an exception thrown by a step      *)
(* skips the steps after it.  n is the ordinal of the alert.               *)
(***************************************************************************)
Handled(tl, s, effects, error) ==
    [ timeline |-> tl, snap |-> s, notified |-> effects, uncaught |-> error ]

handleAccidentAlert(tl, s, data, env, n) ==
    LET critical == data.severity = Some("CRITICAL")
        n1 == <<showToast(<<data.severity, "Accident Detected!">>, "warning")>>
        n2 == IF critical THEN Append(n1, triggerConfetti) ELSE n1
        n3 == Append(n2, playAlertSound(data.severity))
    IN  IF ~env.toast
        THEN Handled(tl, s, <<>>, "TypeError")
        ELSE IF critical /\ ~env.confetti
        THEN Handled(tl, s, n1, "ReferenceError")
        ELSE IF env.sound = "throws"
        THEN Handled(tl, s, n2, "TypeError")
        ELSE IF data.severity = Undefined
        THEN \* addToTimeline: data.severity.toLowerCase() on undefined
             Handled(tl, s, n3, "TypeError")
        ELSE Handled(addToTimeline(tl, data, n), updateDetectionMetrics(s, data),
                     n3, "none")

(***************************************************************************)
(* updateStats(data), on the statistics widgets st                         *)
(***************************************************************************)
updateStats(st, data) ==
    LET counter == OrNum(data.accidents_detected, Some(DefaultAccidents))
    IN  IF data.severity_counts # Undefined
        THEN [ counter |-> counter,
               chart   |-> << OrNum(data.severity_counts[1].MINOR, Some(DefaultMinor))[1],
                              OrNum(data.severity_counts[1].MAJOR, Some(DefaultMajor))[1],
                              OrNum(data.severity_counts[1].CRITICAL, Some(DefaultCritical))[1] >> ]
        ELSE [ st EXCEPT !.counter = counter ]

(***************************************************************************)
(* Event payloads the server pushes.                                       *)
(***************************************************************************)
Factors(overlap, motion, debris) ==
    [ overlap |-> overlap, motion |-> motion, debris |-> debris ]

Detection(accident, severity, severityConfidence, confidence, vehicles, factors) ==
    [ accident_detected   |-> accident,
      severity            |-> severity,
      severity_confidence |-> severityConfidence,
      confidence          |-> confidence,
      vehicle_count       |-> vehicles,
      severity_factors    |-> factors ]

\* a complete CRITICAL detection
DetCritical ==
    Detection(Some(TRUE), Some("CRITICAL"), Some(42000), Some(870), Some(3),
              Some(Factors(Some(73400), Some(50200), Some(99600))))
\* accident with the 0..1 confidence only
DetMajor ==
    Detection(Some(TRUE), Some("MAJOR"), Undefined, Some(870), Undefined, Undefined)
\* severity_confidence provided as 0, one factor only
DetMinor ==
    Detection(Some(TRUE), Some("MINOR"), Some(0), Some(870), Some(2),
              Some(Factors(Some(73400), Undefined, Undefined)))
\* a severity outside MINOR/MAJOR/CRITICAL, confidence just under a band
DetUnknown ==
    Detection(Some(TRUE), Some("UNKNOWN"), Some(84999), Undefined, Some(0),
              Some(Factors(Undefined, Undefined, Undefined)))
\* the severity in another letter case
DetMixedCase ==
    Detection(Some(TRUE), Some("Critical"), Undefined, Some(650), Some(1), Undefined)
\* no severity
DetNoSeverity ==
    Detection(Some(TRUE), Undefined, Undefined, Some(870), Some(4), Undefined)
\* a frame without accident: nothing but the flag
DetNormal ==
    Detection(Some(FALSE), Undefined, Undefined, Undefined, Undefined, Undefined)

Detections ==
    { DetCritical, DetMajor, DetMinor, DetUnknown, DetMixedCase, DetNoSeverity, DetNormal }

\* the alerts of a burst: each has a string severity
BurstAlerts == { DetCritical, DetUnknown }

Counts(minor, major, critical) ==
    [ MINOR |-> minor, MAJOR |-> major, CRITICAL |-> critical ]

StatsUpdates ==
    { [ accidents_detected |-> Some(30), severity_counts |-> Some(Counts(Some(20), Some(9), Some(7))) ],
      [ accidents_detected |-> Undefined, severity_counts |-> Some(Counts(Some(5), Undefined, Undefined)) ],
      [ accidents_detected |-> Some(31), severity_counts |-> Undefined ],
      [ accidents_detected |-> Some(0), severity_counts |-> Some(Counts(Some(0), Some(9), Some(7))) ] }

Responses == { "ok", "not_ok", "failed" }

(***************************************************************************)
(* Initial state: the page loaded, initCharts and initCounters done.       *)
(***************************************************************************)
Init ==
    /\ conn = InitConn
    /\ snap = InitSnap
    /\ stats = InitStats
    /\ timeline = <<>>
    /\ pending = 0
    /\ last = [ kind |-> "load", data |-> [ loaded |-> TRUE ] ]
    /\ notified = <<>>
    /\ uncaught = "none"
    /\ alerts = <<>>
    /\ events = 0

(***************************************************************************)
(* The handlers.                                                           *)
(***************************************************************************)
\* socket.on('connect')
OnConnect ==
    /\ conn' = updateConnectionStatus(TRUE)
    /\ notified' = <<showToast(<<"Connected to server">>, "success")>>
    /\ last' = [ kind |-> "connect", data |-> [ connected |-> TRUE ] ]
    /\ uncaught' = "none"
    /\ events' = events + 1
    /\ UNCHANGED <<snap, stats, timeline, pending, alerts>>

\* a disconnect handler that also puts the widgets back to their initial state
OnDisconnectResetting ==
    /\ conn' = updateConnectionStatus(FALSE)
    /\ snap' = InitSnap
    /\ stats' = InitStats
    /\ timeline' = <<>>
    /\ notified' = <<showToast(<<"Lost connection to server">>, "error")>>
    /\ last' = [ kind |-> "disconnect", data |-> [ connected |-> FALSE ] ]
    /\ uncaught' = "none"
    /\ events' = events + 1
    /\ UNCHANGED <<pending, alerts>>

\* socket.on('disconnect')
OnDisconnect ==
    /\ conn' = updateConnectionStatus(FALSE)
    /\ notified' = <<showToast(<<"Lost connection to server">>, "error")>>
    /\ last' = [ kind |-> "disconnect", data |-> [ connected |-> FALSE ] ]
    /\ uncaught' = "none"
    /\ events' = events + 1
    /\ UNCHANGED <<snap, stats, timeline, pending, alerts>>

\* socket.on('accident_alert'), with the collaborators behaving as env
OnAccidentAlert(data, env) ==
    LET r == handleAccidentAlert(timeline, snap, data, env, Len(alerts) + 1)
    IN  /\ timeline' = r.timeline
        /\ snap' = r.snap
        /\ notified' = onerror(r.notified, r.uncaught, env)
        /\ uncaught' = r.uncaught
        /\ alerts' = Append(alerts, data)
        /\ last' = [ kind |-> "accident_alert", data |-> data ]
        /\ events' = events + 1
        /\ UNCHANGED <<conn, stats, pending>>

\* a new_detection handler that calls handleAccidentAlert
OnNewDetectionAsAlert(data) ==
    LET env == [ toast |-> TRUE, confetti |-> TRUE, sound |-> "plays" ]
        r == handleAccidentAlert(timeline, snap, data, env, Len(alerts) + 1)
    IN  /\ timeline' = r.timeline
        /\ snap' = r.snap
        /\ notified' = onerror(r.notified, r.uncaught, env)
        /\ uncaught' = r.uncaught
        /\ last' = [ kind |-> "new_detection", data |-> data ]
        /\ events' = events + 1
        /\ UNCHANGED <<conn, stats, pending, alerts>>

\* socket.on('new_detection')
OnNewDetection(data) ==
    /\ snap' = updateDetectionMetrics(snap, data)
    /\ notified' = <<>>
    /\ uncaught' = "none"
    /\ last' = [ kind |-> "new_detection", data |-> data ]
    /\ events' = events + 1
    /\ UNCHANGED <<conn, stats, timeline, pending, alerts>>

\* socket.on('stats_update')
OnStatsUpdate(data) ==
    /\ stats' = updateStats(stats, data)
    /\ notified' = <<>>
    /\ uncaught' = "none"
    /\ last' = [ kind |-> "stats_update", data |-> data ]
    /\ events' = events + 1
    /\ UNCHANGED <<conn, snap, timeline, pending, alerts>>

\* clearHistory() up to its await: the confirm dialog, then the request
ClearHistory(confirmed) ==
    /\ pending' = IF confirmed THEN pending + 1 ELSE pending
    /\ notified' = <<>>
    /\ uncaught' = "none"
    /\ last' = [ kind |-> "clearHistory", data |-> [ confirmed |-> confirmed ] ]
    /\ events' = events + 1
    /\ UNCHANGED <<conn, snap, stats, timeline, alerts>>

\* the continuation of clearHistory without the response.ok test
ClearHistoryResponseUnchecked(response) ==
    /\ pending > 0
    /\ pending' = pending - 1
    /\ timeline' = IF response = "failed" THEN timeline ELSE <<>>
    /\ notified' = IF response = "failed"
                   THEN <<>>
                   ELSE <<showToast(<<"History cleared">>, "success")>>
    /\ uncaught' = "none"
    /\ last' = [ kind |-> "clearHistory.response", data |-> [ response |-> response ] ]
    /\ events' = events + 1
    /\ UNCHANGED <<conn, snap, stats, alerts>>

\* clearHistory() from its await on: the response is ok, is not ok, or the
\* request failed (fetch rejected, caught by the catch block)
ClearHistoryResponse(response) ==
    /\ pending > 0
    /\ pending' = pending - 1
    /\ timeline' = IF response = "ok" THEN <<>> ELSE timeline
    /\ notified' = IF response = "ok"
                   THEN <<showToast(<<"History cleared">>, "success")>>
                   ELSE <<>>
    /\ uncaught' = "none"
    /\ last' = [ kind |-> "clearHistory.response", data |-> [ response |-> response ] ]
    /\ events' = events + 1
    /\ UNCHANGED <<conn, snap, stats, alerts>>

(***************************************************************************)
(* Specifications.                                                         *)
(***************************************************************************)
Connect == events < MaxEvents /\ OnConnect
Disconnect == events < MaxEvents /\ OnDisconnect
AccidentAlert == events < MaxEvents /\ \E d \in Detections, env \in Working : OnAccidentAlert(d, env)
NewDetection == events < MaxEvents /\ \E d \in Detections : OnNewDetection(d)
StatsUpdate == events < MaxEvents /\ \E d \in StatsUpdates : OnStatsUpdate(d)
ClearClick ==
    /\ events < MaxEvents
    /\ pending < MaxPending
    /\ \E confirmed \in BOOLEAN : ClearHistory(confirmed)
ClearResponse == \E response \in Responses : ClearHistoryResponse(response)

Next ==
    \/ Connect
    \/ Disconnect
    \/ AccidentAlert
    \/ NewDetection
    \/ StatsUpdate
    \/ ClearClick
    \/ ClearResponse

\* the dashboard with its collaborators working
Spec == Init /\ [][Next]_vars

\* a burst of alerts with string severities into an empty timeline
AlertBurst ==
    /\ Len(alerts) < MaxAlerts
    /\ \E d \in BurstAlerts, env \in Working : OnAccidentAlert(d, env)

NextTimeline == AlertBurst

SpecTimeline == Init /\ [][NextTimeline]_vars

\* the dashboard with collaborators of the notification code failing
FailingAlert ==
    /\ events < MaxEvents
    /\ \E d \in Detections, env \in Failing : OnAccidentAlert(d, env)

NextFault == Next \/ FailingAlert

SpecFault == Init /\ [][NextFault]_vars

(***************************************************************************)
(* Properties.                                                             *)
(***************************************************************************)
\* the part of the detection widgets the detection snapshot consists of
Displayed(s) ==
    [ accidentStatus  |-> s.accidentStatus,
      severityLevel   |-> s.severityLevel,
      confidenceValue |-> s.confidenceValue,
      vehicleCount    |-> s.vehicleCount,
      factorOverlap   |-> s.factorOverlap,
      factorMotion    |-> s.factorMotion,
      factorDebris    |-> s.factorDebris ]

\* C1: after a new_detection event the displayed snapshot (status, severity,
\* confidence, vehicle count, the three factors) is what the payload of that
\* event alone determines, i.e. what it writes on untouched widgets; nothing
\* written by an earlier event survives.
C1_LastDetectionWins ==
    last.kind = "new_detection"
        => Displayed(snap) = Displayed(updateDetectionMetrics(InitSnap, last.data))

\* the confidence the normalization rule prescribes: severity_confidence when
\* provided, else confidence * 100 when provided, else 0
prescribedConfidence(data) ==
    IF data.severity_confidence # Undefined THEN data.severity_confidence[1]
    ELSE IF data.confidence # Undefined THEN data.confidence[1] * 100
    ELSE 0

\* C2: the confidence updateDetectionMetrics shows is the payload's
\* severity_confidence whenever that field is provided (0 included), else its
\* confidence times 100 when provided, else 0.
C2_ConfidenceNormalized ==
    last.kind = "new_detection"
        => snap.confidenceValue = Some(ToFixed(prescribedConfidence(last.data), 1))

\* the items of the timeline for the k most recent of the alerts, newest first
latestItems(k) ==
    [ i \in 1..k |-> timelineItem(alerts[Len(alerts) - i + 1], Len(alerts) - i + 1) ]

\* C3: from an empty timeline, after n accident_alert events with string
\* severities the timeline holds exactly min(n, 10) items, those of the
\* min(n, 10) most recent alerts, newest first; it never holds more than 10.
C3_TimelineLatestTen ==
    LET n == Len(alerts)
        k == IF n < TimelineLimit THEN n ELSE TimelineLimit
    IN  /\ Len(timeline) <= TimelineLimit
        /\ Len(timeline) = k
        /\ timeline = latestItems(k)

\* twelve alerts delivered, the two oldest evicted
C3_Witness ==
    /\ Len(alerts) = TimelineLimit + 2
    /\ Len(timeline) = TimelineLimit
    /\ timeline[1].n = TimelineLimit + 2
    /\ timeline[TimelineLimit].n = 3

\* the statistics after a field-by-field merge of a stats_update payload
mergedStats(st, data) ==
    LET counts == data.severity_counts
        pick(provided, previous) == IF provided # Undefined THEN provided[1] ELSE previous
    IN  [ counter |-> IF data.accidents_detected # Undefined
                      THEN data.accidents_detected ELSE st.counter,
          chart   |-> IF counts = Undefined THEN st.chart
                      ELSE << pick(counts[1].MINOR, st.chart[1]),
                              pick(counts[1].MAJOR, st.chart[2]),
                              pick(counts[1].CRITICAL, st.chart[3]) >> ]

\* C4: a stats_update merges into the statistics field by field: a field the
\* payload omits keeps its previous value, a field it provides takes the
\* provided value.
C4_StatsMergedByField ==
    [][ last'.kind = "stats_update" => stats' = mergedStats(stats, last'.data) ]_vars

\* the text of a factor as prescribed: the value with 0 decimals, 0 when the
\* key or the whole severity_factors object is missing
prescribedFactor(data, key) ==
    IF data.severity_factors = Undefined \/ data.severity_factors[1][key] = Undefined
    THEN Some(0)
    ELSE Some(ToFixed(data.severity_factors[1][key][1], 0))

\* C5: after a detection event is rendered the three factor values show the
\* payload's factors with 0 decimals, a missing key as 0 and a missing
\* severity_factors object as three 0, whatever was displayed before.
C5_FactorsRendered ==
    last.kind = "new_detection"
        => /\ snap.factorOverlap = prescribedFactor(last.data, "overlap")
           /\ snap.factorMotion = prescribedFactor(last.data, "motion")
           /\ snap.factorDebris = prescribedFactor(last.data, "debris")

\* C6: an accident_alert whose severity is absent or is none of
\* MINOR/MAJOR/CRITICAL is handled without an error, its item is put on the
\* timeline with the fallback icon, and the snapshot is written from it.
C6_UnknownSeverityRecorded ==
    ( /\ last.kind = "accident_alert"
      /\ \/ last.data.severity = Undefined
         \/ last.data.severity[1] \notin KnownSeverities )
        => /\ uncaught = "none"
           /\ timeline # <<>>
           /\ timeline[1].n = Len(alerts)
           /\ timeline[1].icon = "fa-exclamation-triangle"
           /\ snap.confidenceValue = Some(ToFixed(confidenceOf(last.data), 1))
           /\ snap.vehicleCount = OrNum(last.data.vehicle_count, Some(0))

\* C7: whether or not the toast, the sound or the confetti fails, the item of
\* an accident_alert (with a string severity) is put on the timeline and the
\* snapshot is written as when they all succeed.
C7_NotificationFailureHarmless ==
    ( last.kind = "accident_alert" /\ last.data.severity # Undefined )
        => /\ timeline # <<>>
           /\ timeline[1] = timelineItem(last.data, Len(alerts))
           /\ snap.confidenceValue = Some(ToFixed(confidenceOf(last.data), 1))
           /\ snap.vehicleCount = OrNum(last.data.vehicle_count, Some(0))

\* C8: a connect or a disconnect event changes the connection indicator only:
\* the detection snapshot, the statistics and the timeline are after the
\* event what they were before it.
C8_ConnectivityKeepsData ==
    [][ last'.kind \in {"connect", "disconnect"}
            => /\ snap' = snap
               /\ stats' = stats
               /\ timeline' = timeline ]_vars

\* connected again with a snapshot, a timeline and statistics on display
C8_Witness ==
    /\ last.kind = "connect"
    /\ conn.dot = Some("connected")
    /\ snap.severityLevel = Some("CRITICAL")
    /\ timeline # <<>>
    /\ stats # InitStats

C10_ClearHistory ==
    [][ /\ last'.kind = "clearHistory"
            => /\ timeline' = timeline
               /\ uncaught' = "none"
               /\ pending' = IF last'.data.confirmed THEN pending + 1 ELSE pending
        /\ last'.kind = "clearHistory.response"
            => /\ uncaught' = "none"
               /\ timeline' = IF last'.data.response = "ok" THEN <<>> ELSE timeline ]_vars

\* an ok response has emptied a timeline that held the item of an alert
C10_Witness ==
    /\ last.kind = "clearHistory.response"
    /\ last.data.response = "ok"
    /\ alerts # <<>>
    /\ alerts[1].severity # Undefined
    /\ timeline = <<>>
    /\ pending = 0

\* the markers whose class equals the displayed severity, letter case ignored
matchingDots == { d \in SeverityDots : d = ToLowerCase(snap.severityLevel[1]) }

\* C11 as stated: once a detection event carrying a severity has been
\* processed, exactly one of the markers minor, major, critical is
\* highlighted, the one that equals the displayed severity, letter case
\* ignored.
C11_ExactlyOneMarker ==
    snap.severityLevel # Undefined
        => /\ Cardinality(snap.activeDots) = 1
           /\ snap.activeDots = matchingDots

\* C11 as amended: once a detection event carrying a severity has been
\* processed, at most one marker is highlighted; the highlighted markers are
\* those that equal the displayed severity, letter case ignored: exactly one
\* for a severity that is minor, major or critical in any letter case, none
\* for any other severity.
C11_MatchingMarkerOnly ==
    snap.severityLevel # Undefined
        => /\ Cardinality(snap.activeDots) <= 1
           /\ snap.activeDots = matchingDots
           /\ ToLowerCase(snap.severityLevel[1]) \in SeverityDots
                  => Cardinality(snap.activeDots) = 1

\* a severity in mixed case has highlighted the critical marker
C11_Witness ==
    /\ snap.severityLevel = Some("Critical")
    /\ snap.activeDots = {"critical"}

\* C12: the confidence on the timeline item of an accident_alert is the
\* confidence the gauge shows for the same alert.
C12_TimelineMatchesGauge ==
    ( last.kind = "accident_alert" /\ uncaught = "none" )
        => /\ timeline # <<>>
           /\ timeline[1].confidence = snap.confidenceValue

====
